---- MODULE Spec2Model ----
(***************************************************************************)
(* Model of the request handler of src/main.go (handleRequest): one        *)
(* request at a time travels through the handler's steps; the upstream     *)
(* model-registry service is the environment.                              *)
(*                                                                         *)
(* Text is a sequence of characters (one-character strings); a name that   *)
(* contains no HTML meta character is kept as one token.  Params values    *)
(* are tagged: a string, a list of strings, or nil.                        *)
(***************************************************************************)
EXTENDS Integers, Sequences, FiniteSets, TLC

\* ------------------------------------------------------------------ bounds
\* Longest query string (key=value pairs) and longest JSON object (members).
MaxPairs == 2
\* Longest JSON object (members) the upstream answers with.
MaxRegistryMembers == 2

\* ------------------------------------------------------- program constants
StatusOK == 200
StatusBadRequest == 400
StatusMethodNotAllowed == 405
StatusInternalServerError == 500

\* -------------------------------------------------------------------- text
S1 == <<"1">>
SLi == <<"<", "l", "i", ">">>
EmptyString == <<>>
\* The NUL character and what html/template prints for it (U+FFFD).
NulChar == "\\0"
Replacement == "\\uFFFD"
\* A header value with the characters html/template escapes besides < > &.
STok == <<"t", "+", "'", "\"">>

OauthKey == <<"oauth2_proxy_kubeflow">>
UserIDKey == <<"kubeflow-userid">>
TokenKey == <<"x-forwarded-access-token">>
LiKey == SLi
IdKey == <<"id">>

\* Go's string order (byte-wise) of every key the model can put in a map;
\* the template ranges over a map in this order.
KeyOrder == <<LiKey, IdKey, UserIDKey, OauthKey, TokenKey>>

\* ------------------------------------------------------------------ values
\* interface{} values held by Params and by the Model Registry map.
Str(s) == [t |-> "string", s |-> s, l |-> <<>>]
List(l) == [t |-> "list", s |-> <<>>, l |-> l]
Nil == [t |-> "nil", s |-> <<>>, l |-> <<>>]

\* map[string]interface{}: the nil map, or a map.
EmptyFn == [k \in {} |-> Nil]
NilMap == [nil |-> TRUE, m |-> EmptyFn]
EmptyMap == [nil |-> FALSE, m |-> EmptyFn]
MapKeys(mp) == IF mp.nil THEN {} ELSE DOMAIN mp.m
\* m[k] = v on a non-nil map (an assignment to a nil map panics: see the
\* actions that assign).
MapSet(mp, k, v) == [nil |-> FALSE, m |-> (k :> v) @@ mp.m]

\* ------------------------------------------------------------------ inputs
Pair(k, v) == [k |-> k, v |-> v]

RECURSIVE SeqsUpTo(_, _)
SeqsUpTo(S, n) ==
    IF n = 0 THEN {<<>>}
    ELSE LET shorter == SeqsUpTo(S, n - 1)
         IN shorter \cup {Append(q, x) : q \in shorter, x \in S}

\* key=value pairs a query string or a JSON request body is built from.
RequestPairs ==
    {Pair(OauthKey, S1), Pair(UserIDKey, S1), Pair(LiKey, S1), Pair(LiKey, SLi)}
RegistryPairs == {Pair(IdKey, S1), Pair(LiKey, SLi)}

\* A body: unreadable (the read fails), empty, or a text that is malformed
\* JSON, a JSON array, a JSON scalar, the literal null, or a JSON object
\* given by its members in the order written (a key may repeat).
Body(kind) == [kind |-> kind, members |-> <<>>]
Object(members) == [kind |-> "object", members |-> members]
NonObjectKinds == {"unreadable", "empty", "malformed", "array", "scalar", "null"}

Methods == {"GET", "POST", "PUT", "HEAD"}
\* The body is read for POST only and the query for GET only (lines 42, 60):
\* the part the handler never reads is drawn from a small set.
Bodies == {Body(k) : k \in NonObjectKinds}
              \cup {Object(ms) : ms \in SeqsUpTo(RequestPairs, MaxPairs)}
UnreadBodies == {Body("empty"), Body("null")}
Queries == SeqsUpTo(RequestPairs, MaxPairs)
UnreadQueries == {<<>>, <<Pair(UserIDKey, S1)>>}

Cookie(name, value) == [name |-> name, value |-> value]
CookieLists ==
    {<<>>, <<Cookie(<<"session">>, S1)>>,
     <<Cookie(<<"session">>, S1), Cookie(OauthKey, SLi)>>}

\* A request header: the list of the values sent under a name.
HeaderSets ==
    {[n \in {UserIDKey, TokenKey} |-> IF n = UserIDKey THEN u ELSE t] :
        u \in {<<>>, <<EmptyString>>, <<SLi>>}, t \in {<<>>, <<STok>>}}

RequestsOf(mt) ==
    {[method |-> mt, body |-> b, query |-> q, cookies |-> c, header |-> h] :
        b \in (IF mt = "POST" THEN Bodies ELSE UnreadBodies),
        q \in (IF mt = "GET" THEN Queries ELSE UnreadQueries),
        c \in CookieLists, h \in HeaderSets}

\* What http.Get can return: an error, or a response with a status line
\* (three digits, 099 included) and a body. http.Get hands back a 101, a
\* 204, a 304 or a 405 as it is.
UpstreamStatuses == {99, 101, 200, 204, 304, 404, 405, 503}
RegistryBodies == {Body(k) : k \in NonObjectKinds}
              \cup {Object(ms) : ms \in SeqsUpTo(RegistryPairs, MaxRegistryMembers)}
UnreadRegistryBodies == {Body("unreadable"), Object(<<Pair(IdKey, S1)>>)}
NoUpstream == [status |-> 0, body |-> Body("empty")]
UpstreamResponses ==
    {[status |-> StatusOK, body |-> b] : b \in RegistryBodies}
        \cup {[status |-> st, body |-> b] :
                st \in UpstreamStatuses \ {StatusOK}, b \in UnreadRegistryBodies}

\* ------------------------------------------------------- library operations
\* json.Unmarshal(body, &target) for target of type map[string]interface{}:
\* a syntax error or a non-object value is an error and leaves the target;
\* null is no error and leaves the target; an object allocates the map when
\* the target is nil and stores the members in order (a later member wins).
RECURSIVE StoreMembers(_, _)
StoreMembers(mp, members) ==
    IF members = <<>> THEN mp
    ELSE StoreMembers(MapSet(mp, Head(members).k, Str(Head(members).v)),
                      Tail(members))

Unmarshal(body, target) ==
    CASE body.kind \in {"empty", "malformed", "array", "scalar"} ->
             [err |-> TRUE, val |-> target]
      [] body.kind = "null" -> [err |-> FALSE, val |-> target]
      [] OTHER ->
             [err |-> FALSE,
              val |-> StoreMembers(IF target.nil THEN EmptyMap ELSE target,
                                   body.members)]

\* r.ParseForm() on a GET: r.Form maps each key of the query to its values
\* in the order written.
RECURSIVE ValuesOf(_, _)
ValuesOf(query, k) ==
    IF query = <<>> THEN <<>>
    ELSE IF Head(query).k = k
         THEN <<Head(query).v>> \o ValuesOf(Tail(query), k)
         ELSE ValuesOf(Tail(query), k)

ParseForm(query) ==
    [k \in {query[i].k : i \in DOMAIN query} |-> ValuesOf(query, k)]

\* Lines 62-69: one value becomes a string, several the list.
FormParams(form) ==
    [nil |-> FALSE,
     m |-> [k \in DOMAIN form |->
              IF Len(form[k]) = 1 THEN Str(form[k][1]) ELSE List(form[k])]]

\* r.Cookie(name): the first cookie of that name, or ErrNoCookie.
RECURSIVE FindCookie(_, _)
FindCookie(cookies, name) ==
    IF cookies = <<>> THEN [err |-> "ErrNoCookie", value |-> EmptyString]
    ELSE IF Head(cookies).name = name
         THEN [err |-> "nil", value |-> Head(cookies).value]
         ELSE FindCookie(Tail(cookies), name)

\* r.Header.Get(name): the first value sent under the name, or "".
HeaderGet(header, name) ==
    IF name \in DOMAIN header /\ header[name] # <<>>
    THEN header[name][1] ELSE EmptyString

\* ------------------------------------------------------ the response writer
\* w: header is the handler's header map; sent, status and body are what the
\* server has sent (the headers that went out with the status); interim:
\* the 1xx interim responses sent before it; writes counts the calls of
\* WriteHeader with a final status (the first one counts, a later one is
\* ignored); head: the request is a HEAD; broken: a write to the client has
\* failed.
NoHeader == [h \in {} |-> ""]
NewWriter ==
    [header |-> NoHeader, sent |-> NoHeader, status |-> 0, body |-> <<>>,
     interim |-> <<>>, writes |-> 0, head |-> FALSE, broken |-> FALSE]
WriterFor(r) == [NewWriter EXCEPT !.head = (r.method = "HEAD")]

\* Lines 32-33.
FrameHeaders ==
    ("X-Frame-Options" :> "ALLOWALL")
        @@ ("Content-Security-Policy" :> "frame-ancestors *;")

\* WriteHeader panics on a code that is not three digits.
ValidStatusCode(code) == code >= 100 /\ code <= 999

\* The server sends no body with a 1xx, a 204 or a 304 (Write returns
\* ErrBodyNotAllowed).
BodyAllowedForStatus(code) ==
    ~(code >= 100 /\ code <= 199) /\ code # 204 /\ code # 304

\* The headers the server leaves out when it sends a status: Content-Type,
\* Content-Length and Transfer-Encoding for a 304, the last two for any
\* other status that allows no body.
SuppressedHeaders(code) ==
    IF code = 304
    THEN {"Content-Type", "Content-Length", "Transfer-Encoding"}
    ELSE IF ~BodyAllowedForStatus(code)
         THEN {"Content-Length", "Transfer-Encoding"}
         ELSE {}

\* A 1xx, 101 included, is an interim response (Go 1.20).
Informational(code) == code >= 100 /\ code <= 199

\* w.WriteHeader(code) for a code it accepts: once the status is out a call
\* is ignored; an interim code is sent and leaves the status unsettled; else
\* the status goes out with the headers as they are, less the suppressed.
WriteHeader(wr, code) ==
    IF wr.writes > 0
    THEN [wr EXCEPT !.writes = @ + 1]
    ELSE IF Informational(code)
         THEN [wr EXCEPT !.interim = Append(@, code)]
         ELSE [wr EXCEPT !.status = code,
                         !.sent = [h \in DOMAIN wr.header \ SuppressedHeaders(code)
                                     |-> wr.header[h]],
                         !.writes = 1]

\* w.Write(text): a first Write sends status 200; nothing is sent in answer
\* to a HEAD, with a status that allows no body, or once a write has failed.
WriteBody(wr, text) ==
    LET w1 == IF wr.writes = 0 THEN WriteHeader(wr, StatusOK) ELSE wr
    IN IF w1.head \/ w1.broken \/ ~BodyAllowedForStatus(w1.status)
       THEN w1 ELSE [w1 EXCEPT !.body = @ \o text]

\* Mutant of HttpError: the error response starts from a fresh header map.
HttpErrorFreshHeaders(wr, msg, code) ==
    WriteBody(WriteHeader([wr EXCEPT !.header =
                              ("Content-Type" :> "text/plain; charset=utf-8")
                                  @@ ("X-Content-Type-Options" :> "nosniff")],
                          code),
              <<msg, "\n">>)

\* http.Error(w, msg, code), for a code WriteHeader accepts: two headers are
\* set, the others kept, WriteHeader(code) called, then the message and a
\* newline written.
HttpError(wr, msg, code) ==
    WriteBody(WriteHeader([wr EXCEPT !.header =
                              ("Content-Type" :> "text/plain; charset=utf-8")
                                  @@ ("X-Content-Type-Options" :> "nosniff") @@ @],
                          code),
              <<msg, "\n">>)

\* --------------------------------------------------------------- rendering
\* printf "%v" of a value.
RECURSIVE JoinSpace(_)
JoinSpace(l) ==
    IF l = <<>> THEN <<>>
    ELSE IF Len(l) = 1 THEN l[1]
    ELSE l[1] \o <<" ">> \o JoinSpace(Tail(l))

FormatV(v) ==
    CASE v.t = "string" -> v.s
      [] v.t = "list" -> <<"[">> \o JoinSpace(v.l) \o <<"]">>
      [] OTHER -> <<"<", "n", "i", "l", ">">>

\* html/template escapes what a pipeline prints in HTML text.
EscapeChar(c) ==
    CASE c = "<" -> "&lt;"
      [] c = ">" -> "&gt;"
      [] c = "&" -> "&amp;"
      [] c = "\"" -> "&#34;"
      [] c = "'" -> "&#39;"
      [] c = "+" -> "&#43;"
      [] c = NulChar -> Replacement
      [] OTHER -> c

HTMLEscape(text) == [i \in DOMAIN text |-> EscapeChar(text[i])]

\* Lines 154 and 161: one list item of the template.
Item(k, v) ==
    SLi \o <<"<strong>">> \o HTMLEscape(k) \o <<":", "</strong>", " ">>
        \o HTMLEscape(FormatV(v)) \o <<"</li>">>

\* {{range $key, $value := .}} over a map: its keys in sorted order; a nil
\* map has none.
RECURSIVE RangeItems(_, _)
RangeItems(mp, order) ==
    IF order = <<>> THEN <<>>
    ELSE (IF Head(order) \in MapKeys(mp)
          THEN Item(Head(order), mp.m[Head(order)]) ELSE <<>>)
             \o RangeItems(mp, Tail(order))

\* Lines 136-166: the page.
Page(ps, reg) ==
    <<"<h1>", "<ul>">> \o RangeItems(ps, KeyOrder) \o <<"</ul>", "<h2>", "<ul>">>
        \o RangeItems(reg, KeyOrder) \o <<"</ul>">>

\* Where t.Execute can stop when a write to the client fails. A write can
\* fail at any byte; the model takes two of these places: before anything
\* of the page is out, and after the Params list.
CutPoints(page) == {i \in 0..(Len(page) - 1) : i = 0 \/ page[i] = "</ul>"}

\* ------------------------------------------------------- the handler's steps
\* Mutant of MethodAllowed: PUT is let through.
MethodAllowedOrPut(mt) == mt \in {"GET", "POST", "PUT"}

\* Line 35.
MethodAllowed(mt) == mt = "GET" \/ mt = "POST"

\* Lines 40-70: the error message of the step ("" for none) and params.
ExtractParams(r) ==
    IF r.method = "POST"
    THEN IF r.body.kind = "unreadable"
         THEN [msg |-> "Unable to read request body", params |-> NilMap]
         ELSE IF r.body.kind # "empty"
              THEN LET u == Unmarshal(r.body, NilMap)
                   IN IF u.err
                      THEN [msg |-> "Invalid JSON in request body", params |-> NilMap]
                      ELSE [msg |-> "", params |-> u.val]
              ELSE [msg |-> "", params |-> EmptyMap]
    ELSE IF r.method = "GET"
         THEN [msg |-> "", params |-> FormParams(ParseForm(r.query))]
         ELSE [msg |-> "", params |-> NilMap]

\* Mutant of WithHeader: the header is stored even when it is empty.
WithHeaderAlways(ps, name, value) == MapSet(ps, name, Str(value))

\* Lines 89-93 and 97-101: a header that is not empty is stored.
WithHeader(ps, name, value) ==
    IF value = EmptyString THEN ps ELSE MapSet(ps, name, Str(value))

\* Mutant of AfterCallError: the call is tried again.
AfterCallErrorRetry == "call"

\* Lines 106-110: the handler returns after a failed call.
AfterCallError == "done"

VARIABLES
    pc,         \* the handler's position
    exit,       \* the step the handler returned (or panicked) from
    req,        \* the request being handled
    params,     \* params (line 40)
    w,          \* the response writer
    panicked,   \* the handler panicked: the server sends no response
    calls,      \* upstream calls issued for this request
    upstream,   \* modelRegistryResp
    registry    \* modelRegistryData

vars == <<pc, exit, req, params, w, panicked, calls, upstream, registry>>

NoRequest ==
    [method |-> "GET", body |-> Body("empty"), query |-> <<>>, cookies |-> <<>>,
     header |-> [n \in {UserIDKey, TokenKey} |-> <<>>]]

Init ==
    /\ pc = "idle"
    /\ exit = "none"
    /\ req = NoRequest
    /\ params = NilMap
    /\ w = NewWriter
    /\ panicked = FALSE
    /\ calls = 0
    /\ upstream = NoUpstream
    /\ registry = NilMap

\* The server hands a request to a fresh run of the handler.
Receive ==
    /\ pc = "idle"
    /\ \E mt \in Methods : \E r \in RequestsOf(mt) : req' = r
    /\ w' = WriterFor(req')
    /\ pc' = "start"
    /\ UNCHANGED <<exit, params, panicked, calls, upstream, registry>>

\* The handler returns from step st having answered msg with status code.
Answer(st, msg, code) ==
    /\ pc' = "done"
    /\ exit' = st
    /\ IF ValidStatusCode(code)
       THEN w' = HttpError(w, msg, code) /\ panicked' = FALSE
       ELSE /\ w' = [w EXCEPT !.header =
                        ("Content-Type" :> "text/plain; charset=utf-8")
                            @@ ("X-Content-Type-Options" :> "nosniff") @@ @]
            /\ panicked' = TRUE

\* The handler panics in step st.
Panic(st) ==
    /\ pc' = "done"
    /\ exit' = st
    /\ panicked' = TRUE

\* Lines 17-38.
CheckMethod ==
    /\ pc = "start"
    /\ LET wr == [w EXCEPT !.header = FrameHeaders @@ @]
       IN IF MethodAllowed(req.method)
          THEN /\ w' = wr
               /\ pc' = "extract"
               /\ UNCHANGED <<exit, panicked>>
          ELSE /\ pc' = "done"
               /\ exit' = "method"
               /\ w' = HttpError(wr, "Method not allowed", StatusMethodNotAllowed)
               /\ UNCHANGED panicked
    /\ UNCHANGED <<req, params, calls, upstream, registry>>

\* Lines 40-70.
ExtractStep ==
    /\ pc = "extract"
    /\ LET e == ExtractParams(req)
       IN IF e.msg # ""
          THEN Answer("extract", e.msg, StatusBadRequest) /\ UNCHANGED params
          ELSE /\ params' = e.params
               /\ pc' = "cookie"
               /\ UNCHANGED <<exit, w, panicked>>
    /\ UNCHANGED <<req, calls, upstream, registry>>

\* Lines 72-85.
CookieStep ==
    /\ pc = "cookie"
    /\ LET c == FindCookie(req.cookies, OauthKey)
       IN IF c.err = "ErrNoCookie"
          THEN IF params.nil
               THEN Panic("cookie") /\ UNCHANGED <<params, w>>
               ELSE /\ params' = MapSet(params, OauthKey, Nil)
                    /\ pc' = "headers"
                    /\ UNCHANGED <<exit, w, panicked>>
          ELSE IF c.err # "nil"
               THEN Answer("cookie", "Error reading cookies", StatusBadRequest)
                        /\ UNCHANGED params
               ELSE IF params.nil
                    THEN Panic("cookie") /\ UNCHANGED <<params, w>>
                    ELSE /\ params' = MapSet(params, OauthKey, Str(c.value))
                         /\ pc' = "headers"
                         /\ UNCHANGED <<exit, w, panicked>>
    /\ UNCHANGED <<req, calls, upstream, registry>>

\* Lines 87-101.
HeaderStep ==
    /\ pc = "headers"
    /\ LET uid == HeaderGet(req.header, UserIDKey)
           tok == HeaderGet(req.header, TokenKey)
       IN IF params.nil /\ (uid # EmptyString \/ tok # EmptyString)
          THEN Panic("headers") /\ UNCHANGED <<params, w>>
          ELSE /\ params' = WithHeader(WithHeader(params, UserIDKey, uid),
                                       TokenKey, tok)
               /\ pc' = "call"
               /\ UNCHANGED <<exit, w, panicked>>
    /\ UNCHANGED <<req, calls, upstream, registry>>

\* Lines 103-105: http.Get is issued; the handler blocks in it.
CallUpstream ==
    /\ pc = "call"
    /\ pc' = "waiting"
    /\ calls' = calls + 1
    /\ UNCHANGED <<exit, req, params, w, panicked, upstream, registry>>

\* Lines 105-110: http.Get returns an error.
UpstreamFails ==
    /\ pc = "waiting"
    /\ pc' = AfterCallError
    /\ exit' = "call"
    /\ w' = HttpError(w, "Error calling model registry service",
                      StatusInternalServerError)
    /\ UNCHANGED <<req, params, panicked, calls, upstream, registry>>

\* Line 105: http.Get returns a response.
UpstreamResponds ==
    /\ pc = "waiting"
    /\ \E res \in UpstreamResponses : upstream' = res
    /\ pc' = "status"
    /\ UNCHANGED <<exit, req, params, w, panicked, calls, registry>>

\* Lines 111-120.
CheckStatus ==
    /\ pc = "status"
    /\ IF upstream.status # StatusOK
       THEN Answer("status", "Model registry service error", upstream.status)
       ELSE pc' = "readbody" /\ UNCHANGED <<exit, w, panicked>>
    /\ UNCHANGED <<req, params, calls, upstream, registry>>

\* Lines 122-127.
ReadRegistryBody ==
    /\ pc = "readbody"
    /\ IF upstream.body.kind = "unreadable"
       THEN Answer("readbody", "Error reading model registry response",
                   StatusInternalServerError)
       ELSE pc' = "decode" /\ UNCHANGED <<exit, w, panicked>>
    /\ UNCHANGED <<req, params, calls, upstream, registry>>

\* Lines 129-134.
DecodeRegistry ==
    /\ pc = "decode"
    /\ LET u == Unmarshal(upstream.body, NilMap)
       IN IF u.err
          THEN Answer("decode", "Invalid JSON from model registry service",
                      StatusBadRequest) /\ UNCHANGED registry
          ELSE /\ registry' = u.val
               /\ pc' = "render"
               /\ UNCHANGED <<exit, w, panicked>>
    /\ UNCHANGED <<req, params, calls, upstream>>

\* Lines 168-180: the template parses and Content-Type is set for the page
\* (the first Write of t.Execute sends status 200).
StartPage(wr) ==
    [wr EXCEPT !.header = ("Content-Type" :> "text/html; charset=utf-8") @@ @]

\* Lines 136-185, t.Execute succeeding.
Render ==
    /\ pc = "render"
    /\ pc' = "done"
    /\ exit' = "render"
    /\ w' = WriteBody(StartPage(w), Page(params, registry))
    /\ UNCHANGED <<req, params, panicked, calls, upstream, registry>>

\* Lines 136-185, t.Execute failing on a write to the client: part of the
\* page is out with status 200, then http.Error sets its headers and calls
\* WriteHeader(500), which is ignored; its message cannot be written.
RenderFails ==
    /\ pc = "render"
    /\ pc' = "done"
    /\ exit' = "render"
    /\ \E cut \in CutPoints(Page(params, registry)) :
          w' = HttpError([WriteBody(StartPage(w),
                                    SubSeq(Page(params, registry), 1, cut))
                             EXCEPT !.broken = TRUE],
                         "Error executing template", StatusInternalServerError)
    /\ UNCHANGED <<req, params, panicked, calls, upstream, registry>>

\* The handler has returned (or the server has recovered its panic): the
\* request's data are discarded and the server takes the next request.
Finish ==
    /\ pc = "done"
    /\ pc' = "idle"
    /\ exit' = "none"
    /\ req' = NoRequest
    /\ params' = NilMap
    /\ w' = NewWriter
    /\ panicked' = FALSE
    /\ calls' = 0
    /\ upstream' = NoUpstream
    /\ registry' = NilMap

Next ==
    \/ Receive
    \/ CheckMethod
    \/ ExtractStep
    \/ CookieStep
    \/ HeaderStep
    \/ CallUpstream
    \/ UpstreamFails
    \/ UpstreamResponds
    \/ CheckStatus
    \/ ReadRegistryBody
    \/ DecodeRegistry
    \/ Render
    \/ RenderFails
    \/ Finish

Spec == Init /\ [][Next]_vars

\* ================================================================== claims
Done == pc = "done"
\* A response has been sent.
Sent == w.writes > 0 /\ ~panicked
BodyHas(msg) == \E i \in DOMAIN w.body : w.body[i] = msg
\* http.Get returned a response (not an error) for the request.
GotResponse == calls = 1 /\ pc \notin {"waiting"} /\ exit # "call"
\* Valid input: any GET; a POST whose body is empty or a JSON object.
ValidInput ==
    \/ req.method = "GET"
    \/ req.method = "POST" /\ req.body.kind \in {"empty", "object"}
\* The handler is past the cookie step (lines 72-85).
AfterCookie ==
    \/ pc \in {"headers", "call", "waiting", "status", "readbody", "decode", "render"}
    \/ Done /\ exit \notin {"method", "extract"}
HasOauthCookie == \E i \in DOMAIN req.cookies : req.cookies[i].name = OauthKey
\* The pairs the query string (GET) or the JSON body (POST) supplies.
SuppliedPairs == IF req.method = "GET" THEN req.query ELSE req.body.members
SuppliedKeys == {SuppliedPairs[i].k : i \in DOMAIN SuppliedPairs}
\* Occurrences of the text <li> in a body.
CountLi(body) ==
    Cardinality({i \in 1..(Len(body) - 3) : SubSeq(body, i, i + 3) = SLi})

\* C1: a POST whose body is not empty and not a JSON object (malformed text,
\* an array, a scalar, null) is answered 400 "Invalid JSON in request body",
\* and with nothing else.
C1_InvalidBody400 ==
    (Done /\ req.method = "POST"
          /\ req.body.kind \in {"malformed", "array", "scalar", "null"})
        => (/\ Sent
            /\ w.writes = 1
            /\ w.status = StatusBadRequest
            /\ BodyHas("Invalid JSON in request body"))

\* C2: a request whose method is neither GET nor POST is answered exactly
\* 405, whatever else it carries, and the handler does nothing more for it.
C2_MethodNotAllowed ==
    (pc # "idle" /\ req.method \notin {"GET", "POST"})
        => (/\ pc \in {"start", "done"}
            /\ Done => (/\ Sent
                        /\ w.writes = 1
                        /\ w.status = StatusMethodNotAllowed
                        /\ calls = 0))

C2_Witness ==
    /\ Done
    /\ req.method = "PUT"
    /\ req.body.kind = "null"
    /\ req.query # <<>>
    /\ HasOauthCookie
    /\ w.status = StatusMethodNotAllowed

\* C3: an upstream response whose status is not 200 is relayed: the client
\* gets that status and "Model registry service error", and the upstream
\* body is neither read nor parsed.
C3_RelayStatus ==
    (Done /\ GotResponse /\ upstream.status # StatusOK)
        => (/\ Sent
            /\ w.status = upstream.status
            /\ BodyHas("Model registry service error")
            /\ exit = "status")

\* C4: an upstream 200 whose body is not a JSON object (not JSON, an array,
\* a scalar, null) is answered 400 "Invalid JSON from model registry
\* service"; no page is rendered from it.
C4_InvalidRegistry400 ==
    (Done /\ GotResponse /\ upstream.status = StatusOK
          /\ upstream.body.kind \in {"empty", "malformed", "array", "scalar", "null"})
        => (/\ Sent
            /\ w.status = StatusBadRequest
            /\ BodyHas("Invalid JSON from model registry service")
            /\ exit # "render")

\* C5 (as claimed): in the Params of a 200 response a header key is present
\* only if the request carried that header with a value that is not empty,
\* and then maps to the header's value.
C5_HeaderKeysOnlyFromHeaders ==
    (Done /\ exit = "render")
        => \A hk \in {UserIDKey, TokenKey} :
              hk \in MapKeys(params)
                  => (/\ HeaderGet(req.header, hk) # EmptyString
                      /\ params.m[hk] = Str(HeaderGet(req.header, hk)))

\* C5 (amended): in the Params of a 200 response, a header sent with a
\* value that is not empty puts its key in Params with that value, over
\* whatever the query string or JSON body supplied; without such a header
\* the key is in Params exactly when the query string (GET) or JSON body
\* (POST) supplied it, with the value supplied there.
C5_HeaderKeys ==
    (Done /\ exit = "render")
        => \A hk \in {UserIDKey, TokenKey} :
              LET hv == HeaderGet(req.header, hk)
              IN IF hv # EmptyString
                 THEN hk \in MapKeys(params) /\ params.m[hk] = Str(hv)
                 ELSE /\ hk \in MapKeys(params) <=> hk \in SuppliedKeys
                      /\ hk \in MapKeys(params)
                            => params.m[hk] = ExtractParams(req).params.m[hk]

C5_Witness ==
    /\ Done
    /\ exit = "render"
    /\ w.status = StatusOK
    /\ HeaderGet(req.header, UserIDKey) = SLi
    /\ UserIDKey \in SuppliedKeys
    /\ params.m[UserIDKey] = Str(SLi)

\* C6: every response sent, on the success path and on every error path,
\* carries X-Frame-Options: ALLOWALL and Content-Security-Policy:
\* frame-ancestors *; and both are set before any status is written.
C6_FrameHeaders ==
    /\ pc \notin {"idle", "start"}
          => (/\ "X-Frame-Options" \in DOMAIN w.header
              /\ w.header["X-Frame-Options"] = "ALLOWALL"
              /\ "Content-Security-Policy" \in DOMAIN w.header
              /\ w.header["Content-Security-Policy"] = "frame-ancestors *;")
    /\ w.writes > 0
          => (/\ "X-Frame-Options" \in DOMAIN w.sent
              /\ w.sent["X-Frame-Options"] = "ALLOWALL"
              /\ "Content-Security-Policy" \in DOMAIN w.sent
              /\ w.sent["Content-Security-Policy"] = "frame-ancestors *;")

C6_Witness ==
    /\ Done
    /\ Sent
    /\ w.status = StatusInternalServerError
    /\ exit = "readbody"
    /\ w.sent["X-Frame-Options"] = "ALLOWALL"

\* C7: for a GET or POST request that passed body/param extraction, once
\* the cookie step is over Params has the key oauth2_proxy_kubeflow: nil
\* without such a cookie, else the cookie's value, over any value the query
\* or body supplied.
C7_OauthKeyAlways ==
    AfterCookie
        => (/\ OauthKey \in MapKeys(params)
            /\ params.m[OauthKey] =
                   (IF HasOauthCookie
                    THEN Str(FindCookie(req.cookies, OauthKey).value)
                    ELSE Nil))

\* The request had valid input and its upstream call returned 200 with a
\* JSON object.
C8_Case ==
    Done /\ ValidInput /\ GotResponse /\ upstream.status = StatusOK
         /\ upstream.body.kind = "object"

\* C8: a GET or POST with valid input whose upstream call returns 200 with
\* a JSON object is answered 200, text/html; charset=utf-8, with exactly
\* one <li> per key of Params and one per key of the registry response.
C8_Render ==
    C8_Case
        => (/\ Sent
            /\ w.status = StatusOK
            /\ w.sent["Content-Type"] = "text/html; charset=utf-8"
            /\ CountLi(w.body) =
                   Cardinality(MapKeys(params)) + Cardinality(MapKeys(registry)))

\* C9: while the upstream call is outstanding no response is written, and
\* once the upstream has answered or failed the request gets exactly one
\* response (the server sends one status however often WriteHeader is
\* called, so: a response has been sent).
C9_BlocksThenAnswersOnce ==
    /\ pc = "waiting" => w.writes = 0
    /\ (Done /\ calls = 1) => Sent

\* C10 (as claimed): the upstream call is issued at most once per request,
\* only after the method check, extraction and the cookie step succeeded; a
\* request answered 405 or 400 for a client input error causes no call; a
\* failed call is not repeated.
C10_UpstreamOnceAsClaimed ==
    /\ calls <= 1
    /\ calls = 1
          => (/\ ValidInput
              /\ pc \notin {"start", "extract", "cookie", "headers", "call"}
              /\ OauthKey \in MapKeys(params))
    /\ (w.writes > 0 /\ (\/ w.status = StatusMethodNotAllowed
                         \/ BodyHas("Unable to read request body")
                         \/ BodyHas("Invalid JSON in request body")
                         \/ BodyHas("Error reading cookies")))
          => calls = 0
    /\ (Done /\ exit = "call") => (calls = 1 /\ w.writes = 1)

\* C10 (amended): as claimed, but the 405 that causes no call is the one
\* the method check answers; a 405 can also be the upstream's own status,
\* relayed after the one call.
C10_UpstreamOnce ==
    /\ calls <= 1
    /\ calls = 1
          => (/\ ValidInput
              /\ pc \notin {"start", "extract", "cookie", "headers", "call"}
              /\ OauthKey \in MapKeys(params))
    /\ (Done /\ exit \in {"method", "extract", "cookie"}) => calls = 0
    /\ (Done /\ ~MethodAllowed(req.method))
          => (calls = 0 /\ w.status = StatusMethodNotAllowed)
    /\ (w.writes > 0 /\ (\/ BodyHas("Method not allowed")
                         \/ BodyHas("Unable to read request body")
                         \/ BodyHas("Invalid JSON in request body")
                         \/ BodyHas("Error reading cookies")))
          => calls = 0
    /\ (w.writes > 0 /\ w.status = StatusMethodNotAllowed /\ calls = 1)
          => (/\ exit = "status"
              /\ upstream.status = StatusMethodNotAllowed
              /\ BodyHas("Model registry service error"))
    /\ (Done /\ exit = "call") => (calls = 1 /\ w.writes = 1)

C10_Witness ==
    /\ Done
    /\ exit = "call"
    /\ calls = 1
    /\ w.status = StatusInternalServerError
    /\ BodyHas("Error calling model registry service")
====
